---- MODULE Spec2Model ----
(***************************************************************************)
(* A model of the chess rules engine (utils/chessEngine.ts) of the         *)
(* repository HelloChildd/Chess and of the way the game session            *)
(* (components/ChessGame.tsx) drives it.                                    *)
(*                                                                         *)
(* The board is the source's 8x8 array of strings: row 0 is black's home   *)
(* rank, row 7 white's; a cell is "" or a two-character piece string.      *)
(* A list of squares returned by the engine is modelled as the set of its  *)
(* elements: the engine and the session only test membership, emptiness    *)
(* and pick a random index, which is a nondeterministic choice here.       *)
(*                                                                         *)
(* A JavaScript TypeError raised by a function f is modelled by a second   *)
(* operator f_raises with the same parameters: f gives the value f returns *)
(* when it returns, f_raises says when it does not return.                 *)
(***************************************************************************)
EXTENDS Integers, Sequences, FiniteSets

VARIABLES
    board,      \* the 8x8 board, string[][]
    gameState,  \* the castling rights, GameState
    turn,       \* "w" or "b": the colour whose move is applied next
    played,     \* the moves applied so far while the game follows a Book line
    free,       \* the number of moves applied that left the Book
    unmoved,    \* history: the king and rook home squares whose piece never moved nor was captured
    steps,      \* the number of unchecked applications (specification AnySpec)
    selectedPiece,      \* ChessGame state: the selected square or null
    availableMoves,     \* ChessGame state: the moves shown for the selected square
    gameStatus,         \* ChessGame state: the status line
    gameOver,           \* ChessGame state
    showPromotion,      \* ChessGame state: the promotion dialog is open
    promotionPosition,  \* ChessGame state: the square of the pawn to promote or null
    pending,    \* the computer-move callbacks scheduled by setTimeout and not yet run, oldest first
    event,      \* history: the last handler run and the branch it took
    awaiting    \* history: a player move was applied and no computer move since

sessionVars == <<selectedPiece, availableMoves, gameStatus, gameOver, showPromotion,
                 promotionPosition, pending, event, awaiting>>

vars == <<board, gameState, turn, played, free, unmoved, steps, selectedPiece, availableMoves,
          gameStatus, gameOver, showPromotion, promotionPosition, pending, event, awaiting>>

----------------------------------------------------------------------------
(* Strings and squares *)

WhitePieces == {"wP", "wR", "wN", "wB", "wQ", "wK"}
BlackPieces == {"bP", "bR", "bN", "bB", "bQ", "bK"}
Cells == {""} \cup WhitePieces \cup BlackPieces

\* piece.charAt(0): the colour letter; "" for the empty string
charAt0 == [p \in Cells |-> IF p \in WhitePieces THEN "w" ELSE IF p \in BlackPieces THEN "b" ELSE ""]

\* piece.charAt(1): the kind letter; "" for the empty string
charAt1 ==
    [p \in Cells |->
        IF p \in {"wP", "bP"} THEN "P"
        ELSE IF p \in {"wR", "bR"} THEN "R"
        ELSE IF p \in {"wN", "bN"} THEN "N"
        ELSE IF p \in {"wB", "bB"} THEN "B"
        ELSE IF p \in {"wQ", "bQ"} THEN "Q"
        ELSE IF p \in {"wK", "bK"} THEN "K"
        ELSE ""]

\* color + newPiece, string concatenation of a colour letter and a kind letter
Concat(color, kind) == CHOOSE p \in Cells \ {""} : charAt0[p] = color /\ charAt1[p] = kind

Idx == 0..7
Sq(r, c) == [row |-> r, col |-> c]
Squares == {Sq(r, c) : r \in Idx, c \in Idx}
OnBoard(r, c) == r >= 0 /\ r < 8 /\ c >= 0 /\ c < 8

\* the position of a square in the engine's row-major scans (for row, for col)
ScanIndex(r, c) == 8 * r + c

initialBoard ==
    [r \in Idx |->
        CASE r = 0 -> [c \in Idx |-> <<"bR", "bN", "bB", "bQ", "bK", "bB", "bN", "bR">>[c + 1]]
          [] r = 1 -> [c \in Idx |-> "bP"]
          [] r = 6 -> [c \in Idx |-> "wP"]
          [] r = 7 -> [c \in Idx |-> <<"wR", "wN", "wB", "wQ", "wK", "wB", "wN", "wR">>[c + 1]]
          [] OTHER -> [c \in Idx |-> ""]]

initialGameState ==
    [canWhiteCastleKingside |-> TRUE,
     canWhiteCastleQueenside |-> TRUE,
     canBlackCastleKingside |-> TRUE,
     canBlackCastleQueenside |-> TRUE]

----------------------------------------------------------------------------
(* Raw move generator *)

RookDirections == {<<0, 1>>, <<1, 0>>, <<0, -1>>, <<-1, 0>>}
BishopDirections == {<<1, 1>>, <<1, -1>>, <<-1, -1>>, <<-1, 1>>}
KnightOffsets == {<<1, 2>>, <<2, 1>>, <<2, -1>>, <<1, -2>>, <<-1, -2>>, <<-2, -1>>, <<-2, 1>>, <<-1, 2>>}
KingOffsets == {<<0, 1>>, <<1, 1>>, <<1, 0>>, <<1, -1>>, <<0, -1>>, <<-1, -1>>, <<-1, 0>>, <<-1, 1>>}

\* The while loop without its break after a capture: it goes on past a piece of
\* the other colour and stops only at a piece of the mover's colour.
SlideMoves_throughEnemy(row, col, board_, direction) ==
    {Sq(row + k * direction[1], col + k * direction[2]) :
        k \in {k \in 1..7 :
                /\ OnBoard(row + k * direction[1], col + k * direction[2])
                /\ \A j \in 1..k :
                    charAt0[board_[row + j * direction[1]][col + j * direction[2]]]
                        # charAt0[board_[row][col]]}}

\* The while loop of a sliding piece along one direction: step k is pushed when
\* it is on the board, every earlier step was an empty square (no break yet), and
\* the square is empty or holds a piece of the other colour.
SlideMoves(row, col, board_, direction) ==
    {Sq(row + k * direction[1], col + k * direction[2]) :
        k \in {k \in 1..7 :
                /\ OnBoard(row + k * direction[1], col + k * direction[2])
                /\ \A j \in 1..(k - 1) : board_[row + j * direction[1]][col + j * direction[2]] = ""
                /\ \/ board_[row + k * direction[1]][col + k * direction[2]] = ""
                   \/ charAt0[board_[row + k * direction[1]][col + k * direction[2]]] # charAt0[board_[row][col]]}}

\* The offset loop with its column test left out: a read of board[r][c] past the
\* row's end gives undefined, which passes !board[r][c], and the square is pushed.
OffsetMoves_noColumnTest(row, col, board_, offsets) ==
    {Sq(row + o[1], col + o[2]) :
        o \in {o \in offsets :
                /\ row + o[1] >= 0 /\ row + o[1] < 8
                /\ \/ col + o[2] \notin Idx
                   \/ board_[row + o[1]][col + o[2]] = ""
                   \/ charAt0[board_[row + o[1]][col + o[2]]] # charAt0[board_[row][col]]}}

\* The knight's and the king's loop over fixed offsets.
OffsetMoves(row, col, board_, offsets) ==
    {Sq(row + o[1], col + o[2]) :
        o \in {o \in offsets :
                /\ OnBoard(row + o[1], col + o[2])
                /\ \/ board_[row + o[1]][col + o[2]] = ""
                   \/ charAt0[board_[row + o[1]][col + o[2]]] # charAt0[board_[row][col]]}}

\* The pawn branch without the double move from the starting row
PawnMoves_noDouble(row, col, board_) ==
    LET isWhite == charAt0[board_[row][col]] = "w"
        direction == IF isWhite THEN -1 ELSE 1
        forward ==
            IF row + direction >= 0 /\ row + direction < 8 /\ board_[row + direction][col] = ""
            THEN {Sq(row + direction, col)}
            ELSE {}
        captures ==
            IF row + direction \in Idx
            THEN {Sq(row + direction, col + offset) :
                    offset \in {o \in {-1, 1} :
                        /\ col + o >= 0 /\ col + o < 8
                        /\ board_[row + direction][col + o] # ""
                        /\ charAt0[board_[row + direction][col + o]] # charAt0[board_[row][col]]}}
            ELSE {}
    IN  forward \cup captures

\* The pawn branch. board[row + direction] is read by the capture loop without a
\* row check: when row + direction is off the board the read raises (see
\* getRawPossibleMoves_raises) and no value is returned; the guard on the capture
\* set below only keeps this operator defined there.
PawnMoves(row, col, board_) ==
    LET isWhite == charAt0[board_[row][col]] = "w"
        direction == IF isWhite THEN -1 ELSE 1
        startRow == IF isWhite THEN 6 ELSE 1
        forward ==
            IF row + direction >= 0 /\ row + direction < 8 /\ board_[row + direction][col] = ""
            THEN {Sq(row + direction, col)}
                 \cup (IF row = startRow /\ board_[row + 2 * direction][col] = ""
                       THEN {Sq(row + 2 * direction, col)} ELSE {})
            ELSE {}
        captures ==
            IF row + direction \in Idx
            THEN {Sq(row + direction, col + offset) :
                    offset \in {o \in {-1, 1} :
                        /\ col + o >= 0 /\ col + o < 8
                        /\ board_[row + direction][col + o] # ""
                        /\ charAt0[board_[row + direction][col + o]] # charAt0[board_[row][col]]}}
            ELSE {}
    IN  forward \cup captures

\* getRawPossibleMoves: the squares pushed for the piece on (row, col), ignoring
\* check and castling.
getRawPossibleMoves(row, col, board_) ==
    LET piece == board_[row][col]
        pieceType == charAt1[piece]
    IN  IF piece = "" THEN {}
        ELSE CASE pieceType = "P" -> PawnMoves(row, col, board_)
               [] pieceType = "R" -> UNION {SlideMoves(row, col, board_, d) : d \in RookDirections}
               [] pieceType = "N" -> OffsetMoves(row, col, board_, KnightOffsets)
               [] pieceType = "B" -> UNION {SlideMoves(row, col, board_, d) : d \in BishopDirections}
               [] pieceType = "Q" -> UNION {SlideMoves(row, col, board_, d) : d \in RookDirections \cup BishopDirections}
               [] pieceType = "K" -> OffsetMoves(row, col, board_, KingOffsets)

\* getRawPossibleMoves raises a TypeError exactly when the piece is a pawn whose
\* next row is off the board: board[row + direction] is undefined and is indexed
\* for the first capture offset that passes the column check (one always does).
getRawPossibleMoves_raises(row, col, board_) ==
    /\ charAt1[board_[row][col]] = "P"
    /\ row + (IF charAt0[board_[row][col]] = "w" THEN -1 ELSE 1) \notin Idx

----------------------------------------------------------------------------
(* Check detector *)

null == Sq(-1, -1)

\* findKing: the first square in scan order holding the king, or null
findKing(board_, isWhite) ==
    LET kingPiece == IF isWhite THEN "wK" ELSE "bK"
        found == {s \in Squares : board_[s.row][s.col] = kingPiece}
    IN  IF found = {} THEN null
        ELSE CHOOSE s \in found : \A t \in found : ScanIndex(s.row, s.col) <= ScanIndex(t.row, t.col)

\* isSquareUnderAttack: some piece of the attacking colour has (row, col) among
\* its raw moves
isSquareUnderAttack(row, col, board_, byWhite) ==
    \E r \in Idx, c \in Idx :
        /\ board_[r][c] # ""
        /\ (charAt0[board_[r][c]] = "w") = byWhite
        /\ Sq(row, col) \in getRawPossibleMoves(r, c, board_)

\* The scan of isSquareUnderAttack raises when it reaches a piece of the attacking
\* colour whose raw moves raise before any piece that attacks the square (the scan
\* returns true at the first attacker).
isSquareUnderAttack_raises(row, col, board_, byWhite) ==
    \E r \in Idx, c \in Idx :
        /\ board_[r][c] # ""
        /\ (charAt0[board_[r][c]] = "w") = byWhite
        /\ getRawPossibleMoves_raises(r, c, board_)
        /\ \A r2 \in Idx, c2 \in Idx :
            (/\ ScanIndex(r2, c2) < ScanIndex(r, c)
             /\ board_[r2][c2] # ""
             /\ (charAt0[board_[r2][c2]] = "w") = byWhite)
            => Sq(row, col) \notin getRawPossibleMoves(r2, c2, board_)

\* isKingInCheck: false when the king is absent
isKingInCheck(board_, isWhiteKing) ==
    LET kingPos == findKing(board_, isWhiteKing)
    IN  IF kingPos = null THEN FALSE
        ELSE isSquareUnderAttack(kingPos.row, kingPos.col, board_, ~isWhiteKing)

isKingInCheck_raises(board_, isWhiteKing) ==
    LET kingPos == findKing(board_, isWhiteKing)
    IN  IF kingPos = null THEN FALSE
        ELSE isSquareUnderAttack_raises(kingPos.row, kingPos.col, board_, ~isWhiteKing)

----------------------------------------------------------------------------
(* Legality filter *)

\* One castling block without its rook condition (the change a missing
\* board[7][7] === 'wR' would make).
CastleOffered_noRook(board_, flag, isWhite, betweenCols, rookCol, passCol, destCol) ==
    LET homeRow == IF isWhite THEN 7 ELSE 0
    IN  /\ flag
        /\ \A c \in betweenCols : board_[homeRow][c] = ""
        /\ ~isKingInCheck(board_, isWhite)
        /\ ~isSquareUnderAttack(homeRow, passCol, board_, ~isWhite)
        /\ ~isSquareUnderAttack(homeRow, destCol, board_, ~isWhite)

\* The condition of one of the four castling blocks of getPossibleMoves: the
\* right, the empty squares between king and rook, the rook on its corner, the
\* king not in check, the two squares the king crosses not under attack. The
\* conditions read the fixed home-row squares: the king's own square is not
\* compared with its home square.
CastleOffered(board_, flag, isWhite, betweenCols, rookCol, passCol, destCol) ==
    LET homeRow == IF isWhite THEN 7 ELSE 0
    IN  /\ flag
        /\ \A c \in betweenCols : board_[homeRow][c] = ""
        /\ board_[homeRow][rookCol] = (IF isWhite THEN "wR" ELSE "bR")
        /\ ~isKingInCheck(board_, isWhite)
        /\ ~isSquareUnderAttack(homeRow, passCol, board_, ~isWhite)
        /\ ~isSquareUnderAttack(homeRow, destCol, board_, ~isWhite)

\* The castling destinations getPossibleMoves pushes for a king of the given
\* colour: the kingside block, then the queenside block.
CastlingMoves(board_, gameState_, isWhite) ==
    IF isWhite
    THEN (IF CastleOffered(board_, gameState_.canWhiteCastleKingside, TRUE, {5, 6}, 7, 5, 6)
          THEN {Sq(7, 6)} ELSE {})
         \cup
         (IF CastleOffered(board_, gameState_.canWhiteCastleQueenside, TRUE, {1, 2, 3}, 0, 3, 2)
          THEN {Sq(7, 2)} ELSE {})
    ELSE (IF CastleOffered(board_, gameState_.canBlackCastleKingside, FALSE, {5, 6}, 7, 5, 6)
          THEN {Sq(0, 6)} ELSE {})
         \cup
         (IF CastleOffered(board_, gameState_.canBlackCastleQueenside, FALSE, {1, 2, 3}, 0, 3, 2)
          THEN {Sq(0, 2)} ELSE {})

\* testBoard: a copy of the board with the piece of (row, col) put on move
TestBoard(row, col, board_, move) ==
    [board_ EXCEPT ![move.row][move.col] = board_[row][col], ![row][col] = ""]

\* possibleMoves before the filter: the raw moves, plus castling for a king
CandidateMoves(row, col, board_, gameState_) ==
    getRawPossibleMoves(row, col, board_)
    \cup (IF charAt1[board_[row][col]] = "K"
          THEN CastlingMoves(board_, gameState_, charAt0[board_[row][col]] = "w")
          ELSE {})

\* getPossibleMoves without its filter (the change a lost filter loop would make)
getPossibleMoves_unfiltered(row, col, board_, gameState_) ==
    IF board_[row][col] = "" THEN {} ELSE CandidateMoves(row, col, board_, gameState_)

\* getPossibleMoves testing the other king on the test board (isWhite negated)
getPossibleMoves_otherKing(row, col, board_, gameState_) ==
    IF board_[row][col] = "" THEN {}
    ELSE {move \in CandidateMoves(row, col, board_, gameState_) :
            ~isKingInCheck(TestBoard(row, col, board_, move), charAt0[board_[row][col]] # "w")}

\* getPossibleMoves: the candidates that do not leave the mover's king in check
\* on the test board
getPossibleMoves(row, col, board_, gameState_) ==
    IF board_[row][col] = "" THEN {}
    ELSE {move \in CandidateMoves(row, col, board_, gameState_) :
            ~isKingInCheck(TestBoard(row, col, board_, move), charAt0[board_[row][col]] = "w")}

\* The castling block of getPossibleMoves raises when one of its calls raises:
\* each && chain stops at its first false condition, and the queenside chain is
\* reached only when the kingside chain returned.
CastlingMoves_raises(board_, gameState_, isWhite) ==
    LET homeRow == IF isWhite THEN 7 ELSE 0
        rook == IF isWhite THEN "wR" ELSE "bR"
        \* the three calls that end a chain whose first conditions hold
        calls(c1, c2) ==
            \/ isKingInCheck_raises(board_, isWhite)
            \/ /\ ~isKingInCheck(board_, isWhite)
               /\ \/ isSquareUnderAttack_raises(homeRow, c1, board_, ~isWhite)
                  \/ /\ ~isSquareUnderAttack(homeRow, c1, board_, ~isWhite)
                     /\ isSquareUnderAttack_raises(homeRow, c2, board_, ~isWhite)
        kingside ==
            /\ IF isWhite THEN gameState_.canWhiteCastleKingside ELSE gameState_.canBlackCastleKingside
            /\ board_[homeRow][5] = "" /\ board_[homeRow][6] = ""
            /\ board_[homeRow][7] = rook
            /\ calls(5, 6)
        queenside ==
            /\ IF isWhite THEN gameState_.canWhiteCastleQueenside ELSE gameState_.canBlackCastleQueenside
            /\ board_[homeRow][1] = "" /\ board_[homeRow][2] = "" /\ board_[homeRow][3] = ""
            /\ board_[homeRow][0] = rook
            /\ calls(2, 3)
    IN  kingside \/ queenside

\* getPossibleMoves raises when the raw moves of the piece raise, when the castling
\* block raises, or when isKingInCheck raises on the test board of a candidate
\* (the filter loop has no early exit).
getPossibleMoves_raises(row, col, board_, gameState_) ==
    /\ board_[row][col] # ""
    /\ \/ getRawPossibleMoves_raises(row, col, board_)
       \/ /\ charAt1[board_[row][col]] = "K"
          /\ CastlingMoves_raises(board_, gameState_, charAt0[board_[row][col]] = "w")
       \/ \E move \in CandidateMoves(row, col, board_, gameState_) :
            isKingInCheck_raises(TestBoard(row, col, board_, move), charAt0[board_[row][col]] = "w")

----------------------------------------------------------------------------
(* Move applicator *)

\* lines 318-320 and 338-339: a king move clears both rights of its colour
KingMoveRights(piece, gameState_) ==
    CASE piece = "wK" -> [gameState_ EXCEPT !.canWhiteCastleKingside = FALSE,
                                            !.canWhiteCastleQueenside = FALSE]
      [] piece = "bK" -> [gameState_ EXCEPT !.canBlackCastleKingside = FALSE,
                                            !.canBlackCastleQueenside = FALSE]
      [] OTHER -> gameState_

\* The relocation writing the rook beside the king and leaving the corner as it is
CastlingRookRelocation_keepsCorner(piece, fromRow, fromCol, toCol, board_) ==
    CASE piece = "wK" /\ fromRow = 7 /\ fromCol = 4 /\ toCol = 6 ->
            [board_ EXCEPT ![7][5] = board_[7][7]]
      [] piece = "wK" /\ fromRow = 7 /\ fromCol = 4 /\ toCol = 2 ->
            [board_ EXCEPT ![7][3] = board_[7][0]]
      [] piece = "bK" /\ fromRow = 0 /\ fromCol = 4 /\ toCol = 6 ->
            [board_ EXCEPT ![0][5] = board_[0][7]]
      [] piece = "bK" /\ fromRow = 0 /\ fromCol = 4 /\ toCol = 2 ->
            [board_ EXCEPT ![0][3] = board_[0][0]]
      [] OTHER -> board_

\* lines 322-336 and 341-355: a king leaving its home square for column 6 or 2
\* takes the piece of the corner to column 5 or 3
CastlingRookRelocation(piece, fromRow, fromCol, toCol, board_) ==
    CASE piece = "wK" /\ fromRow = 7 /\ fromCol = 4 /\ toCol = 6 ->
            [board_ EXCEPT ![7][5] = board_[7][7], ![7][7] = ""]
      [] piece = "wK" /\ fromRow = 7 /\ fromCol = 4 /\ toCol = 2 ->
            [board_ EXCEPT ![7][3] = board_[7][0], ![7][0] = ""]
      [] piece = "bK" /\ fromRow = 0 /\ fromCol = 4 /\ toCol = 6 ->
            [board_ EXCEPT ![0][5] = board_[0][7], ![0][7] = ""]
      [] piece = "bK" /\ fromRow = 0 /\ fromCol = 4 /\ toCol = 2 ->
            [board_ EXCEPT ![0][3] = board_[0][0], ![0][0] = ""]
      [] OTHER -> board_

\* The rook branch writing the value of the other right of the colour instead of
\* false (a copy-and-paste slip): a right can come back.
RookMoveRights_copied(piece, fromRow, fromCol, gameState_) ==
    CASE piece = "wR" /\ fromRow = 7 /\ fromCol = 0 ->
            [gameState_ EXCEPT !.canWhiteCastleQueenside = gameState_.canWhiteCastleKingside]
      [] piece = "wR" /\ fromRow = 7 /\ fromCol = 7 ->
            [gameState_ EXCEPT !.canWhiteCastleKingside = gameState_.canWhiteCastleQueenside]
      [] piece = "bR" /\ fromRow = 0 /\ fromCol = 0 ->
            [gameState_ EXCEPT !.canBlackCastleQueenside = gameState_.canBlackCastleKingside]
      [] piece = "bR" /\ fromRow = 0 /\ fromCol = 7 ->
            [gameState_ EXCEPT !.canBlackCastleKingside = gameState_.canBlackCastleQueenside]
      [] OTHER -> gameState_

\* lines 359-371: a rook leaving its corner clears the right of that wing
RookMoveRights(piece, fromRow, fromCol, gameState_) ==
    CASE piece = "wR" /\ fromRow = 7 /\ fromCol = 0 -> [gameState_ EXCEPT !.canWhiteCastleQueenside = FALSE]
      [] piece = "wR" /\ fromRow = 7 /\ fromCol = 7 -> [gameState_ EXCEPT !.canWhiteCastleKingside = FALSE]
      [] piece = "bR" /\ fromRow = 0 /\ fromCol = 0 -> [gameState_ EXCEPT !.canBlackCastleQueenside = FALSE]
      [] piece = "bR" /\ fromRow = 0 /\ fromCol = 7 -> [gameState_ EXCEPT !.canBlackCastleKingside = FALSE]
      [] OTHER -> gameState_

\* The capture branch left out: a rook captured on its corner keeps its right
RookCaptureRights_skipped(targetPiece, toRow, toCol, gameState_) == gameState_

\* lines 374-387: a rook captured on its corner clears the right of that wing
RookCaptureRights(targetPiece, toRow, toCol, gameState_) ==
    CASE targetPiece = "wR" /\ toRow = 7 /\ toCol = 0 -> [gameState_ EXCEPT !.canWhiteCastleQueenside = FALSE]
      [] targetPiece = "wR" /\ toRow = 7 /\ toCol = 7 -> [gameState_ EXCEPT !.canWhiteCastleKingside = FALSE]
      [] targetPiece = "bR" /\ toRow = 0 /\ toCol = 0 -> [gameState_ EXCEPT !.canBlackCastleQueenside = FALSE]
      [] targetPiece = "bR" /\ toRow = 0 /\ toCol = 7 -> [gameState_ EXCEPT !.canBlackCastleKingside = FALSE]
      [] OTHER -> gameState_

\* updateGameState: returns the new rights and relocates the castling rook on the
\* board it is given (the array is mutated in place): the result pairs the
\* returned rights with the board as the call leaves it. targetPiece is read
\* after the relocation.
updateGameState(fromRow, fromCol, toRow, toCol, board_, gameState_) ==
    LET piece == board_[fromRow][fromCol]
        relocated == CastlingRookRelocation(piece, fromRow, fromCol, toCol, board_)
        targetPiece == relocated[toRow][toCol]
    IN  [gameState |->
            RookCaptureRights(targetPiece, toRow, toCol,
                RookMoveRights(piece, fromRow, fromCol,
                    KingMoveRights(piece, gameState_))),
         board |-> relocated]

\* The rights object passed to updateGameState, as the call leaves it: line 314
\* copies it and every assignment of lines 318-386 writes the copy.
updateGameState_argument(fromRow, fromCol, toRow, toCol, board_, gameState_) == gameState_

\* canPromotePawn knowing only the white pawn's last row
canPromotePawn_whiteOnly(row, col, board_) ==
    LET piece == board_[row][col]
    IN  IF piece = "" \/ charAt1[piece] # "P" THEN FALSE
        ELSE charAt0[piece] = "w" /\ row = 0

\* canPromotePawn
canPromotePawn(row, col, board_) ==
    LET piece == board_[row][col]
    IN  IF piece = "" \/ charAt1[piece] # "P" THEN FALSE
        ELSE (charAt0[piece] = "w" /\ row = 0) \/ (charAt0[piece] = "b" /\ row = 7)

\* promotePawn testing only that the square is not empty
promotePawn_anyPiece(row, col, board_, newPiece) ==
    LET piece == board_[row][col]
    IN  IF piece = "" THEN board_
        ELSE [board_ EXCEPT ![row][col] = Concat(charAt0[piece], newPiece)]

\* promotePawn: the board as the call leaves it
promotePawn(row, col, board_, newPiece) ==
    LET piece == board_[row][col]
    IN  IF piece = "" \/ charAt1[piece] # "P" THEN board_
        ELSE [board_ EXCEPT ![row][col] = Concat(charAt0[piece], newPiece)]

\* getPossibleMoves called with any coordinates (lines 231-232). For a row off
\* the board, board[row] is undefined and reading [col] of it raises a TypeError;
\* for a row of the board and a column off it, board[row][col] is undefined,
\* !piece holds and the empty list is returned.
getPossibleMovesAt_raises(row, col, board_, gameState_) ==
    IF row \notin Idx THEN TRUE
    ELSE IF col \notin Idx THEN FALSE
    ELSE getPossibleMoves_raises(row, col, board_, gameState_)

\* The list returned where the call does not raise
getPossibleMovesAt(row, col, board_, gameState_) ==
    IF row \in Idx /\ col \in Idx
    THEN getPossibleMoves(row, col, board_, gameState_)
    ELSE {}

\* The caller's part of a move (ChessGame.tsx 57-82, chessEngine.ts 460-471):
\* updateGameState on a copy of the board, then the moving piece is written on
\* the destination and the origin is emptied.
ApplyMove(fromRow, fromCol, toRow, toCol, board_, gameState_) ==
    LET movingPiece == board_[fromRow][fromCol]
        u == updateGameState(fromRow, fromCol, toRow, toCol, board_, gameState_)
    IN  [gameState |-> u.gameState,
         board |-> [u.board EXCEPT ![toRow][toCol] = movingPiece, ![fromRow][fromCol] = ""]]

----------------------------------------------------------------------------
(* Terminal-state classification *)

\* hasAnyValidMoves looking at the king's moves only
hasAnyValidMoves_kingOnly(board_, isWhite, gameState_) ==
    \E row \in Idx, col \in Idx :
        /\ board_[row][col] = (IF isWhite THEN "wK" ELSE "bK")
        /\ getPossibleMoves(row, col, board_, gameState_) # {}

\* hasAnyValidMoves
hasAnyValidMoves(board_, isWhite, gameState_) ==
    \E row \in Idx, col \in Idx :
        /\ board_[row][col] # ""
        /\ charAt0[board_[row][col]] = (IF isWhite THEN "w" ELSE "b")
        /\ getPossibleMoves(row, col, board_, gameState_) # {}

\* isGameOver
isGameOver(board_, gameState_) ==
    \/ isKingInCheck(board_, TRUE) /\ ~hasAnyValidMoves(board_, TRUE, gameState_)
    \/ isKingInCheck(board_, FALSE) /\ ~hasAnyValidMoves(board_, FALSE, gameState_)
    \/ ~isKingInCheck(board_, TRUE) /\ ~hasAnyValidMoves(board_, TRUE, gameState_)
    \/ ~isKingInCheck(board_, FALSE) /\ ~hasAnyValidMoves(board_, FALSE, gameState_)

\* getGameStatus
getGameStatus(board_, gameState_) ==
    IF isKingInCheck(board_, TRUE) /\ ~hasAnyValidMoves(board_, TRUE, gameState_)
    THEN "Checkmate! Computer wins."
    ELSE IF isKingInCheck(board_, FALSE) /\ ~hasAnyValidMoves(board_, FALSE, gameState_)
    THEN "Checkmate! You win!"
    ELSE IF ~isKingInCheck(board_, TRUE) /\ ~hasAnyValidMoves(board_, TRUE, gameState_)
    THEN "Stalemate! Game is a draw."
    ELSE IF ~isKingInCheck(board_, FALSE) /\ ~hasAnyValidMoves(board_, FALSE, gameState_)
    THEN "Stalemate! Game is a draw."
    ELSE IF isKingInCheck(board_, TRUE) THEN "Your king is in check!"
    ELSE IF isKingInCheck(board_, FALSE) THEN "Computer's king is in check!"
    ELSE "Game in progress"

\* hasAnyValidMoves raises when its scan reaches a piece of the colour whose
\* getPossibleMoves raises before any piece with a move (the scan returns true at
\* the first piece that has one).
hasAnyValidMoves_raises(board_, isWhite, gameState_) ==
    \E row \in Idx, col \in Idx :
        /\ board_[row][col] # ""
        /\ charAt0[board_[row][col]] = (IF isWhite THEN "w" ELSE "b")
        /\ getPossibleMoves_raises(row, col, board_, gameState_)
        /\ \A r2 \in Idx, c2 \in Idx :
            (/\ ScanIndex(r2, c2) < ScanIndex(row, col)
             /\ board_[r2][c2] # ""
             /\ charAt0[board_[r2][c2]] = (IF isWhite THEN "w" ELSE "b"))
            => /\ ~getPossibleMoves_raises(r2, c2, board_, gameState_)
               /\ getPossibleMoves(r2, c2, board_, gameState_) = {}

\* One condition of isGameOver and getGameStatus, (check = wanted) && !hasAnyValidMoves:
\* whether its evaluation raises, and its value when it does not.
TerminalTest_raises(board_, gameState_, isWhite, wanted) ==
    \/ isKingInCheck_raises(board_, isWhite)
    \/ /\ isKingInCheck(board_, isWhite) = wanted
       /\ hasAnyValidMoves_raises(board_, isWhite, gameState_)

TerminalTest(board_, gameState_, isWhite, wanted) ==
    /\ isKingInCheck(board_, isWhite) = wanted
    /\ ~hasAnyValidMoves(board_, isWhite, gameState_)

\* The four conditions isGameOver and getGameStatus evaluate in turn, each
\* reached only when the ones before it returned false.
TerminalTests == <<[isWhite |-> TRUE, wanted |-> TRUE], [isWhite |-> FALSE, wanted |-> TRUE],
                   [isWhite |-> TRUE, wanted |-> FALSE], [isWhite |-> FALSE, wanted |-> FALSE]>>

TerminalTests_raises(board_, gameState_) ==
    \E i \in 1..4 :
        /\ TerminalTest_raises(board_, gameState_, TerminalTests[i].isWhite, TerminalTests[i].wanted)
        /\ \A j \in 1..(i - 1) :
            /\ ~TerminalTest_raises(board_, gameState_, TerminalTests[j].isWhite, TerminalTests[j].wanted)
            /\ ~TerminalTest(board_, gameState_, TerminalTests[j].isWhite, TerminalTests[j].wanted)

isGameOver_raises(board_, gameState_) == TerminalTests_raises(board_, gameState_)

\* getGameStatus goes on, when the four conditions are false, to the two plain
\* isKingInCheck calls, which returned already in the conditions.
getGameStatus_raises(board_, gameState_) == TerminalTests_raises(board_, gameState_)

----------------------------------------------------------------------------
(* The two sides' moves *)

\* The choices of the promotion dialog (ChessGame.tsx 334-337)
PromotionChoices == {"Q", "R", "B", "N"}

\* The player's move as the session applies it: handleCellClick's move branch
\* (57-82) and, when a white pawn reached row 0, handlePromotion's promotePawn
\* with the chosen piece (144-145).
PlayerMoveResult(from, to, pieceType, board_, gameState_) ==
    LET a == ApplyMove(from.row, from.col, to.row, to.col, board_, gameState_)
    IN  IF board_[from.row][from.col] = "wP" /\ to.row = 0
        THEN [gameState |-> a.gameState, board |-> promotePawn(to.row, to.col, a.board, pieceType)]
        ELSE a

\* makeComputerMove for one outcome of its two random draws: the black piece on
\* chosenPiece and its move targetMove. updateGameState, the relocation, and
\* the promotion to a queen.
ComputerMoveResult(chosenPiece, targetMove, board_, gameState_) ==
    LET a == ApplyMove(chosenPiece.row, chosenPiece.col, targetMove.row, targetMove.col,
                       board_, gameState_)
    IN  IF canPromotePawn(targetMove.row, targetMove.col, a.board)
        THEN [gameState |-> a.gameState, board |-> promotePawn(targetMove.row, targetMove.col, a.board, "Q")]
        ELSE a

\* makeComputerMove always drawing the first black piece that has a move
makeComputerMove_firstPiece(board_, gameState_) ==
    LET blackPieces == {s \in Squares :
                            /\ board_[s.row][s.col] # ""
                            /\ charAt0[board_[s.row][s.col]] = "b"
                            /\ getPossibleMoves(s.row, s.col, board_, gameState_) # {}}
        first == {s \in blackPieces :
                    \A t \in blackPieces : ScanIndex(s.row, s.col) <= ScanIndex(t.row, t.col)}
    IN  IF blackPieces # {}
        THEN UNION {{ComputerMoveResult(s, m, board_, gameState_) :
                        m \in getPossibleMoves(s.row, s.col, board_, gameState_)} : s \in first}
        ELSE {[gameState |-> gameState_, board |-> board_]}

\* makeComputerMove: the set of results its random draws can give; the inputs
\* themselves when no black piece has a move.
makeComputerMove(board_, gameState_) ==
    LET blackPieces == {s \in Squares :
                            /\ board_[s.row][s.col] # ""
                            /\ charAt0[board_[s.row][s.col]] = "b"
                            /\ getPossibleMoves(s.row, s.col, board_, gameState_) # {}}
    IN  IF blackPieces # {}
        THEN UNION {{ComputerMoveResult(s, m, board_, gameState_) :
                        m \in getPossibleMoves(s.row, s.col, board_, gameState_)} : s \in blackPieces}
        ELSE {[gameState |-> gameState_, board |-> board_]}

\* makeComputerMove raises when getPossibleMoves raises for a black piece (the
\* scan of lines 437-447 visits every black piece).
makeComputerMove_raises(board_, gameState_) ==
    \E s \in Squares :
        /\ board_[s.row][s.col] # ""
        /\ charAt0[board_[s.row][s.col]] = "b"
        /\ getPossibleMoves_raises(s.row, s.col, board_, gameState_)

\* A handler run, as event records it: the handler and its branch, the squares
\* and the choice it was given (null and "" where it takes none)
Ev(kind, a, b, choice) == [kind |-> kind, a |-> a, b |-> b, choice |-> choice]

\* The ChessGame state as useState creates it (ChessGame.tsx 34-41), no callback
\* scheduled
SessionIdle ==
    /\ selectedPiece = null
    /\ availableMoves = {}
    /\ gameStatus = "Your turn"
    /\ gameOver = FALSE
    /\ showPromotion = FALSE
    /\ promotionPosition = null
    /\ pending = << >>
    /\ event = Ev("init", null, null, "")
    /\ awaiting = FALSE

\* isWhiteTurn: white has at most 16 pieces and at least as many as black
isWhiteTurn(board_) ==
    LET whitePieceCount == Cardinality({s \in Squares : charAt0[board_[s.row][s.col]] = "w"})
        blackPieceCount == Cardinality({s \in Squares : charAt0[board_[s.row][s.col]] = "b"})
    IN  whitePieceCount <= 16 /\ whitePieceCount >= blackPieceCount

\* resetGame
resetGame == [board |-> initialBoard, gameState |-> initialGameState]

----------------------------------------------------------------------------
(* The game: white and black moves applied in turn from the starting position *)

Mv(fr, fc, tr, tc, promo) == [from |-> Sq(fr, fc), to |-> Sq(tr, tc), promo |-> promo]

(* The lines the exploration follows from the starting position. Every move of a
   line is applied only if getPossibleMoves returns it. *)
\* e2e4 e7e5 g1f3 g8f6 f1c4 f8c5 d2d3 d7d6 b1c3 b8c6 c1e3 c8e6 d1d2 d8d7 e1g1 e8c8
LineCastle ==
    <<Mv(6, 4, 4, 4, ""), Mv(1, 4, 3, 4, ""), Mv(7, 6, 5, 5, ""),
      Mv(0, 6, 2, 5, ""), Mv(7, 5, 4, 2, ""), Mv(0, 5, 3, 2, ""),
      Mv(6, 3, 5, 3, ""), Mv(1, 3, 2, 3, ""), Mv(7, 1, 5, 2, ""),
      Mv(0, 1, 2, 2, ""), Mv(7, 2, 5, 4, ""), Mv(0, 2, 2, 4, ""),
      Mv(7, 3, 6, 3, ""), Mv(0, 3, 1, 3, ""), Mv(7, 4, 7, 6, ""),
      Mv(0, 4, 0, 2, "")>>

\* e2e4 e7e5 g1f3 g8f6 f1c4 f8c5 d2d3 d7d6 b1c3 b8c6 c1e3 c8e6 d1d2 d8d7 e1c1 e8g8
LineCastle2 ==
    <<Mv(6, 4, 4, 4, ""), Mv(1, 4, 3, 4, ""), Mv(7, 6, 5, 5, ""),
      Mv(0, 6, 2, 5, ""), Mv(7, 5, 4, 2, ""), Mv(0, 5, 3, 2, ""),
      Mv(6, 3, 5, 3, ""), Mv(1, 3, 2, 3, ""), Mv(7, 1, 5, 2, ""),
      Mv(0, 1, 2, 2, ""), Mv(7, 2, 5, 4, ""), Mv(0, 2, 2, 4, ""),
      Mv(7, 3, 6, 3, ""), Mv(0, 3, 1, 3, ""), Mv(7, 4, 7, 2, ""),
      Mv(0, 4, 0, 6, "")>>

\* e2e4 d7d5 e4d5 e7e5 g1f3 e5e4 f1c4 e4e3 a2a3 e3e2 e1g1
LinePawnE2 ==
    <<Mv(6, 4, 4, 4, ""), Mv(1, 3, 3, 3, ""), Mv(4, 4, 3, 3, ""),
      Mv(1, 4, 3, 4, ""), Mv(7, 6, 5, 5, ""), Mv(3, 4, 4, 4, ""),
      Mv(7, 5, 4, 2, ""), Mv(4, 4, 5, 4, ""), Mv(6, 0, 5, 0, ""),
      Mv(5, 4, 6, 4, ""), Mv(7, 4, 7, 6, "")>>

\* a2a4 b7b5 a4b5 h7h5 g2g4 h5g4 b5b6 g4g3 b6a7 g3h2 a7b8Q h2g1 b8a8 g1h1
LinePromote ==
    <<Mv(6, 0, 4, 0, ""), Mv(1, 1, 3, 1, ""), Mv(4, 0, 3, 1, ""),
      Mv(1, 7, 3, 7, ""), Mv(6, 6, 4, 6, ""), Mv(3, 7, 4, 6, ""),
      Mv(3, 1, 2, 1, ""), Mv(4, 6, 5, 6, ""), Mv(2, 1, 1, 0, ""),
      Mv(5, 6, 6, 7, ""), Mv(1, 0, 0, 1, "Q"), Mv(6, 7, 7, 6, ""),
      Mv(0, 1, 0, 0, ""), Mv(7, 6, 7, 7, "")>>

\* e2e4 e7e5 d1h5 b8c6 f1c4 g8f6 h5f7
LineScholar ==
    <<Mv(6, 4, 4, 4, ""), Mv(1, 4, 3, 4, ""), Mv(7, 3, 3, 7, ""),
      Mv(0, 1, 2, 2, ""), Mv(7, 5, 4, 2, ""), Mv(0, 6, 2, 5, ""),
      Mv(3, 7, 1, 5, "")>>

\* e2e4 e7e5 d1h5 e8e7 h5e5
LineCheck ==
    <<Mv(6, 4, 4, 4, ""), Mv(1, 4, 3, 4, ""), Mv(7, 3, 3, 7, ""),
      Mv(0, 4, 1, 4, ""), Mv(3, 7, 3, 4, "")>>

\* f2f3 e7e5 g2g4 d8h4
LineFool ==
    <<Mv(6, 5, 5, 5, ""), Mv(1, 4, 3, 4, ""), Mv(6, 6, 4, 6, ""),
      Mv(0, 3, 4, 7, "")>>

\* b2b3 g7g6 c1b2 a7a6 b2h8 a6a5
LineCorner ==
    <<Mv(6, 1, 5, 1, ""), Mv(1, 6, 2, 6, ""), Mv(7, 2, 6, 1, ""),
      Mv(1, 0, 2, 0, ""), Mv(6, 1, 0, 7, ""), Mv(2, 0, 3, 0, "")>>

\* e2e4 d7d5 e4d5 d8d5 b1c3 d5e5 f1e2 g8f6
LinePin ==
    <<Mv(6, 4, 4, 4, ""), Mv(1, 3, 3, 3, ""), Mv(4, 4, 3, 3, ""),
      Mv(0, 3, 3, 3, ""), Mv(7, 1, 5, 2, ""), Mv(3, 3, 3, 4, ""),
      Mv(7, 5, 6, 4, ""), Mv(0, 6, 2, 5, "")>>

Book == {LineCastle, LineCastle2, LinePawnE2, LinePromote, LineScholar, LineCheck, LineFool, LineCorner, LinePin}

\* The number of moves, after leaving the Book, that are drawn from all the
\* moves getPossibleMoves returns.
MaxFree == 1

\* The king and rook home squares
HomeSquares == {Sq(7, 4), Sq(7, 0), Sq(7, 7), Sq(0, 4), Sq(0, 0), Sq(0, 7)}

Init ==
    /\ board = initialBoard
    /\ gameState = initialGameState
    /\ turn = "w"
    /\ played = << >>
    /\ free = 0
    /\ unmoved = HomeSquares
    /\ steps = 0
    /\ SessionIdle

InBook(move) ==
    /\ free = 0
    /\ \E line \in Book :
        /\ Len(line) > Len(played)
        /\ SubSeq(line, 1, Len(played)) = played
        /\ line[Len(played) + 1] = move

\* A move of the Book continues the line; any other move is counted in free.
Explore(move) ==
    IF InBook(move)
    THEN played' = Append(played, move) /\ free' = free
    ELSE free < MaxFree /\ played' = << >> /\ free' = free + 1

\* The squares a move takes out of unmoved: the origin (its piece moved), the
\* destination (its piece was captured) and, when a king castles, the rook's
\* corner.
Touched(from, to, board_) ==
    {from, to}
    \cup (IF charAt1[board_[from.row][from.col]] = "K" /\ from.col = 4 /\ to.col = 6
          THEN {Sq(from.row, 7)} ELSE {})
    \cup (IF charAt1[board_[from.row][from.col]] = "K" /\ from.col = 4 /\ to.col = 2
          THEN {Sq(from.row, 0)} ELSE {})

PlayerMove ==
    /\ turn = "w"
    /\ \E from \in Squares :
        /\ charAt0[board[from.row][from.col]] = "w"
        /\ \E to \in getPossibleMoves(from.row, from.col, board, gameState) :
            \E pieceType \in (IF board[from.row][from.col] = "wP" /\ to.row = 0
                              THEN PromotionChoices ELSE {""}) :
                LET r == PlayerMoveResult(from, to, pieceType, board, gameState)
                IN  /\ Explore([from |-> from, to |-> to, promo |-> pieceType])
                    /\ board' = r.board
                    /\ gameState' = r.gameState
                    /\ unmoved' = unmoved \ Touched(from, to, board)
    /\ turn' = "b"
    /\ UNCHANGED <<steps, sessionVars>>

ComputerMove ==
    /\ turn = "b"
    /\ \E chosenPiece \in Squares :
        /\ charAt0[board[chosenPiece.row][chosenPiece.col]] = "b"
        /\ \E targetMove \in getPossibleMoves(chosenPiece.row, chosenPiece.col, board, gameState) :
            LET r == ComputerMoveResult(chosenPiece, targetMove, board, gameState)
            IN  /\ Explore([from |-> chosenPiece, to |-> targetMove, promo |-> ""])
                /\ board' = r.board
                /\ gameState' = r.gameState
                /\ unmoved' = unmoved \ Touched(chosenPiece, targetMove, board)
    /\ turn' = "w"
    /\ UNCHANGED <<steps, sessionVars>>

Next == PlayerMove \/ ComputerMove

Spec == Init /\ [][Next]_vars

----------------------------------------------------------------------------
(* The engine's functions on boards of any shape: from a few boards, moves are *)
(* applied without asking getPossibleMoves (the applicator checks no legality). *)

\* The board holding the pieces of a set of <<row, col, piece>>
BoardOf(placed) ==
    [r \in Idx |-> [c \in Idx |->
        IF \E t \in placed : t[1] = r /\ t[2] = c
        THEN (CHOOSE t \in placed : t[1] = r /\ t[2] = c)[3]
        ELSE ""]]

Rights(wk, wq, bk, bq) ==
    [canWhiteCastleKingside |-> wk, canWhiteCastleQueenside |-> wq,
     canBlackCastleKingside |-> bk, canBlackCastleQueenside |-> bq]

\* Kings and rooks at home with clear home rows, and a few pieces around
CastleBoard ==
    BoardOf({<<7, 4, "wK">>, <<7, 0, "wR">>, <<7, 7, "wR">>,
             <<0, 4, "bK">>, <<0, 0, "bR">>, <<0, 7, "bR">>,
             <<2, 0, "bQ">>, <<3, 3, "bN">>, <<4, 6, "bP">>, <<1, 1, "bB">>,
             <<6, 5, "wP">>, <<5, 7, "wN">>})

\* Black to move would be stalemated: king h8 against queen g6 and king f7
StalemateBoard == BoardOf({<<0, 7, "bK">>, <<2, 6, "wQ">>, <<1, 5, "wK">>})

\* Both kings checkmated at once: the white king a1 by the pawn b2 (a2, b1 and
\* b2 covered by b3, c2 and c3), the black king h8 by the queen g7 (guarded by h6)
DoubleMateBoard ==
    BoardOf({<<7, 0, "wK">>, <<6, 1, "bP">>, <<5, 1, "bP">>, <<5, 2, "bP">>, <<6, 2, "bP">>,
             <<0, 7, "bK">>, <<1, 6, "wQ">>, <<2, 7, "wP">>})

\* Kings at home and no rook on a corner, a bishop and a pawn instead
NoRookBoard ==
    BoardOf({<<7, 4, "wK">>, <<0, 4, "bK">>, <<7, 7, "wB">>, <<0, 0, "wN">>, <<1, 7, "bP">>})

Seeds ==
    {[board |-> initialBoard, gameState |-> initialGameState],
     [board |-> NoRookBoard, gameState |-> initialGameState],
     [board |-> CastleBoard, gameState |-> initialGameState],
     [board |-> CastleBoard, gameState |-> Rights(FALSE, FALSE, FALSE, FALSE)],
     [board |-> CastleBoard, gameState |-> Rights(TRUE, FALSE, FALSE, TRUE)],
     [board |-> StalemateBoard, gameState |-> Rights(FALSE, FALSE, FALSE, FALSE)],
     [board |-> DoubleMateBoard, gameState |-> Rights(FALSE, FALSE, FALSE, FALSE)]}

\* The number of moves applied without a legality check
MaxAny == 1

InitAny ==
    /\ \E seed \in Seeds : board = seed.board /\ gameState = seed.gameState
    /\ turn = "w"
    /\ played = << >>
    /\ free = 0
    /\ unmoved = {}
    /\ steps = 0
    /\ SessionIdle

\* updateGameState and the relocation for any origin and any destination
\* (an empty origin writes the empty string on the destination)
ApplyAny ==
    /\ steps < MaxAny
    /\ \E from \in Squares, to \in Squares :
        /\ LET a == ApplyMove(from.row, from.col, to.row, to.col, board, gameState)
           IN  board' = a.board /\ gameState' = a.gameState
    /\ steps' = steps + 1
    /\ UNCHANGED <<turn, played, free, unmoved, sessionVars>>

\* promotePawn for any square and any of the four kinds
PromoteAny ==
    /\ steps < MaxAny
    /\ \E sq \in Squares, newPiece \in PromotionChoices :
        board' = promotePawn(sq.row, sq.col, board, newPiece)
    /\ steps' = steps + 1
    /\ UNCHANGED <<gameState, turn, played, free, unmoved, sessionVars>>

\* makeComputerMove on any board
ComputerAny ==
    /\ steps < MaxAny
    /\ ~makeComputerMove_raises(board, gameState)
    /\ \E r \in makeComputerMove(board, gameState) :
        board' = r.board /\ gameState' = r.gameState
    /\ steps' = steps + 1
    /\ UNCHANGED <<turn, played, free, unmoved, sessionVars>>

NextAny == ApplyAny \/ PromoteAny \/ ComputerAny

AnySpec == InitAny /\ [][NextAny]_vars

----------------------------------------------------------------------------
(* Claims *)

\* The boards a move of the piece on from to to can give: the player's four
\* promotion choices for a white pawn reaching row 0, makeComputerMove's result
\* for a black piece.
MoveResults(from, to) ==
    IF charAt0[board[from.row][from.col]] = "w"
    THEN {PlayerMoveResult(from, to, pieceType, board, gameState) :
            pieceType \in (IF board[from.row][from.col] = "wP" /\ to.row = 0
                           THEN PromotionChoices ELSE {""})}
    ELSE {ComputerMoveResult(from, to, board, gameState)}

\* C1: in every position reached from the starting position by moves
\* taken from getPossibleMoves, every destination getPossibleMoves returns for a
\* piece, once applied (updateGameState with the castling rook relocation, the
\* piece relocation, the promotion), leaves the king of the moving colour not in
\* check.
C1_LegalMoveLeavesKingSafe ==
    \A from \in Squares :
        board[from.row][from.col] # "" =>
            \A to \in getPossibleMoves(from.row, from.col, board, gameState) :
                \A r \in MoveResults(from, to) :
                    ~isKingInCheck(r.board, charAt0[board[from.row][from.col]] = "w")

\* C1 witness: moves have been applied, and for a piece of the side to move the
\* filter has discarded a candidate and kept another.
C1_Witness ==
    /\ Len(played) + free > 0
    /\ \E from \in Squares :
        /\ charAt0[board[from.row][from.col]] = turn
        /\ getPossibleMoves(from.row, from.col, board, gameState) # {}
        /\ getPossibleMoves(from.row, from.col, board, gameState)
            # CandidateMoves(from.row, from.col, board, gameState)

Count(piece) == Cardinality({s \in Squares : board[s.row][s.col] = piece})

C4_RightImpliesUnmoved ==
    LET Holds(flag, kingRow, rookCol, color) ==
            flag => /\ Sq(kingRow, 4) \in unmoved
                    /\ Sq(kingRow, rookCol) \in unmoved
                    /\ board[kingRow][4] = Concat(color, "K")
                    /\ board[kingRow][rookCol] = Concat(color, "R")
    IN  /\ Holds(gameState.canWhiteCastleKingside, 7, 7, "w")
        /\ Holds(gameState.canWhiteCastleQueenside, 7, 0, "w")
        /\ Holds(gameState.canBlackCastleKingside, 0, 7, "b")
        /\ Holds(gameState.canBlackCastleQueenside, 0, 0, "b")

\* C4 witness: after a rook was captured on its corner, the other right of that
\* colour is still true.
C4_Witness ==
    /\ board[0][7] = "wB"
    /\ ~gameState.canBlackCastleKingside
    /\ gameState.canBlackCastleQueenside

----------------------------------------------------------------------------
(* Claims about the engine's functions on any board (AnySpec) *)

\* Some piece of the colour could capture on the square: the square is among
\* the raw moves of a piece of that colour (a pawn on its last row has none)
CouldCapture(sq, board_, byWhite) ==
    \E r \in Idx, c \in Idx :
        /\ board_[r][c] # ""
        /\ (charAt0[board_[r][c]] = "w") = byWhite
        /\ ~getRawPossibleMoves_raises(r, c, board_)
        /\ sq \in getRawPossibleMoves(r, c, board_)

\* The square is attacked by the enemy of the king standing on kingFrom: an
\* enemy piece could capture that king if it stood on the square.
Attacked(kingFrom, sq, board_) ==
    LET isWhiteKing == charAt0[board_[kingFrom.row][kingFrom.col]] = "w"
    IN  CouldCapture(sq,
                     IF sq = kingFrom THEN board_
                     ELSE TestBoard(kingFrom.row, kingFrom.col, board_, sq),
                     ~isWhiteKing)

\* The two wings: the right, the columns between king and rook, the rook's
\* column, the column the king passes over and its destination column
Wings(gameState_, isWhite) ==
    {[flag |-> IF isWhite THEN gameState_.canWhiteCastleKingside ELSE gameState_.canBlackCastleKingside,
      between |-> {5, 6}, rookCol |-> 7, passCol |-> 5, destCol |-> 6],
     [flag |-> IF isWhite THEN gameState_.canWhiteCastleQueenside ELSE gameState_.canBlackCastleQueenside,
      between |-> {1, 2, 3}, rookCol |-> 0, passCol |-> 3, destCol |-> 2]}

HomeRow(isWhite) == IF isWhite THEN 7 ELSE 0
KingOf(isWhite) == IF isWhite THEN "wK" ELSE "bK"
RookOf(isWhite) == IF isWhite THEN "wR" ELSE "bR"

\* C2: getPossibleMoves for a king on its home square never includes a castling
\* destination when the king's square, the square it passes over or the
\* destination is attacked by the enemy (an enemy piece could capture a king
\* standing there; a pawn attacks the two squares diagonally ahead of it, empty or
\* not).
C2_NoCastlingThroughAttack ==
    \A isWhite \in BOOLEAN :
        board[HomeRow(isWhite)][4] = KingOf(isWhite) =>
            \A w \in Wings(gameState, isWhite) :
                Sq(HomeRow(isWhite), w.destCol) \in getPossibleMoves(HomeRow(isWhite), 4, board, gameState)
                => /\ ~Attacked(Sq(HomeRow(isWhite), 4), Sq(HomeRow(isWhite), 4), board)
                   /\ ~Attacked(Sq(HomeRow(isWhite), 4), Sq(HomeRow(isWhite), w.passCol), board)
                   /\ ~Attacked(Sq(HomeRow(isWhite), 4), Sq(HomeRow(isWhite), w.destCol), board)

\* C3: a call of updateGameState never sets a castling right: a right that is
\* false before the call is false after it.
C3_RightsOnlyCleared ==
    [][/\ gameState'.canWhiteCastleKingside => gameState.canWhiteCastleKingside
       /\ gameState'.canWhiteCastleQueenside => gameState.canWhiteCastleQueenside
       /\ gameState'.canBlackCastleKingside => gameState.canBlackCastleKingside
       /\ gameState'.canBlackCastleQueenside => gameState.canBlackCastleQueenside]_vars

\* C3 witness: a call has cleared white's kingside right and left white's
\* queenside right true (no initial rights are so).
C3_Witness ==
    /\ steps = 1
    /\ ~gameState.canWhiteCastleKingside
    /\ gameState.canWhiteCastleQueenside

\* C7: getPossibleMoves (for every square), isKingInCheck (for both colours),
\* isGameOver and getGameStatus return without raising on the board.
C7_NeverRaises ==
    /\ \A sq \in Squares : ~getPossibleMoves_raises(sq.row, sq.col, board, gameState)
    /\ ~isKingInCheck_raises(board, TRUE)
    /\ ~isKingInCheck_raises(board, FALSE)
    /\ ~isGameOver_raises(board, gameState)
    /\ ~getGameStatus_raises(board, gameState)

\* C8: every square getRawPossibleMoves or getPossibleMoves returns, for any
\* square of the board, has its row and its column in 0..7.
C8_MovesOnBoard ==
    \A sq \in Squares :
        /\ ~getRawPossibleMoves_raises(sq.row, sq.col, board) =>
            \A m \in getRawPossibleMoves(sq.row, sq.col, board) : m.row \in 0..7 /\ m.col \in 0..7
        /\ ~getPossibleMoves_raises(sq.row, sq.col, board, gameState) =>
            \A m \in getPossibleMoves(sq.row, sq.col, board, gameState) : m.row \in 0..7 /\ m.col \in 0..7

\* C8 witness: a knight or a king on the rim of the board (some of its offsets
\* leave the board) has moves.
C8_Witness ==
    /\ steps = 1
    /\ \E sq \in Squares :
        /\ sq.row \in {0, 7} \/ sq.col \in {0, 7}
        /\ charAt1[board[sq.row][sq.col]] \in {"N", "K"}
        /\ ~getPossibleMoves_raises(sq.row, sq.col, board, gameState)
        /\ getPossibleMoves(sq.row, sq.col, board, gameState) # {}

\* C9: getPossibleMoves for a king on its home square includes the castling
\* destination of a wing only if the right of that wing is true, the squares
\* between king and rook are empty and a rook of the king's colour stands on the
\* corner; on the starting position no castling destination is returned.
C9_CastlingOnlyIfReady ==
    \A isWhite \in BOOLEAN :
        (/\ board[HomeRow(isWhite)][4] = KingOf(isWhite)
         /\ ~getPossibleMoves_raises(HomeRow(isWhite), 4, board, gameState))
        => \A w \in Wings(gameState, isWhite) :
            /\ Sq(HomeRow(isWhite), w.destCol) \in getPossibleMoves(HomeRow(isWhite), 4, board, gameState)
                => /\ w.flag
                   /\ \A c \in w.between : board[HomeRow(isWhite)][c] = ""
                   /\ board[HomeRow(isWhite)][w.rookCol] = RookOf(isWhite)
            /\ board = initialBoard
                => Sq(HomeRow(isWhite), w.destCol) \notin getPossibleMoves(HomeRow(isWhite), 4, board, gameState)

\* C9 witness: after a move, a castling destination is returned for the white
\* king on its home square.
C9_Witness ==
    /\ steps = 1
    /\ board[7][4] = "wK"
    /\ ~getPossibleMoves_raises(7, 4, board, gameState)
    /\ Sq(7, 6) \in getPossibleMoves(7, 4, board, gameState)

\* The wing is ready for castling: the right, king and rook at home, the squares
\* between them empty, the king not in check, the square it passes over and its
\* destination not attacked
CastlingReady(isWhite, w) ==
    /\ w.flag
    /\ board[HomeRow(isWhite)][4] = KingOf(isWhite)
    /\ board[HomeRow(isWhite)][w.rookCol] = RookOf(isWhite)
    /\ \A c \in w.between : board[HomeRow(isWhite)][c] = ""
    /\ ~Attacked(Sq(HomeRow(isWhite), 4), Sq(HomeRow(isWhite), 4), board)
    /\ ~Attacked(Sq(HomeRow(isWhite), 4), Sq(HomeRow(isWhite), w.passCol), board)
    /\ ~Attacked(Sq(HomeRow(isWhite), 4), Sq(HomeRow(isWhite), w.destCol), board)

\* C10: whenever a wing is ready for castling, getPossibleMoves for that king
\* returns a list that includes the castling destination.
C10_CastlingOffered ==
    \A isWhite \in BOOLEAN :
        \A w \in Wings(gameState, isWhite) :
            CastlingReady(isWhite, w)
            => /\ ~getPossibleMoves_raises(HomeRow(isWhite), 4, board, gameState)
               /\ Sq(HomeRow(isWhite), w.destCol) \in getPossibleMoves(HomeRow(isWhite), 4, board, gameState)

\* Wherever the call returns, a wing ready for castling is offered
C10_CastlingOffered_WhenReturns ==
    \A isWhite \in BOOLEAN :
        \A w \in Wings(gameState, isWhite) :
            (/\ CastlingReady(isWhite, w)
             /\ ~getPossibleMoves_raises(HomeRow(isWhite), 4, board, gameState))
            => Sq(HomeRow(isWhite), w.destCol) \in getPossibleMoves(HomeRow(isWhite), 4, board, gameState)

\* The side's king is on the board and an enemy piece could capture it
InCheck(board_, isWhite) ==
    /\ findKing(board_, isWhite) # null
    /\ CouldCapture(findKing(board_, isWhite), board_, ~isWhite)

\* The side has a legal move: one of its pieces has a move after which no enemy
\* piece could capture its king (a pawn on its last row has no move; castling
\* adds nothing, since the king may castle only if it may step on the square it
\* passes over)
HasLegalMove(board_, gameState_, isWhite) ==
    \E r \in Idx, c \in Idx :
        /\ board_[r][c] # "" /\ (charAt0[board_[r][c]] = "w") = isWhite
        /\ ~getRawPossibleMoves_raises(r, c, board_)
        /\ \E m \in getRawPossibleMoves(r, c, board_) :
            ~InCheck(TestBoard(r, c, board_, m), isWhite)

NoLegalMove(board_, gameState_, isWhite) == ~HasLegalMove(board_, gameState_, isWhite)

Checkmated(board_, gameState_, isWhite) ==
    NoLegalMove(board_, gameState_, isWhite) /\ InCheck(board_, isWhite)

Stalemated(board_, gameState_, isWhite) ==
    NoLegalMove(board_, gameState_, isWhite) /\ ~InCheck(board_, isWhite)

\* getGameStatus returns the status
Reports(board_, gameState_, status) ==
    /\ ~getGameStatus_raises(board_, gameState_)
    /\ getGameStatus(board_, gameState_) = status

TerminalStatuses ==
    {"Checkmate! Computer wins.", "Checkmate! You win!", "Stalemate! Game is a draw."}

\* C6: getGameStatus reports a side with no legal move and its king in check as
\* checkmated (a win for the other side, white's checkmate first), a side with
\* no legal move and its king not in check as a stalemate when neither side is
\* checkmated, and neither checkmate nor stalemate when both sides have a move.
C6_StatusClassification ==
    /\ Checkmated(board, gameState, TRUE)
        => Reports(board, gameState, "Checkmate! Computer wins.")
    /\ (Checkmated(board, gameState, FALSE) /\ ~Checkmated(board, gameState, TRUE))
        => Reports(board, gameState, "Checkmate! You win!")
    /\ (/\ Stalemated(board, gameState, TRUE) \/ Stalemated(board, gameState, FALSE)
        /\ ~Checkmated(board, gameState, TRUE)
        /\ ~Checkmated(board, gameState, FALSE))
        => Reports(board, gameState, "Stalemate! Game is a draw.")
    /\ (/\ HasLegalMove(board, gameState, TRUE)
        /\ HasLegalMove(board, gameState, FALSE)
        /\ ~getGameStatus_raises(board, gameState))
        => getGameStatus(board, gameState) \notin TerminalStatuses

\* Wherever getGameStatus returns, the status it reports is the one the
\* classification gives
C6_StatusClassification_WhenReturns ==
    ~getGameStatus_raises(board, gameState) =>
        /\ Checkmated(board, gameState, TRUE)
            => getGameStatus(board, gameState) = "Checkmate! Computer wins."
        /\ (Checkmated(board, gameState, FALSE) /\ ~Checkmated(board, gameState, TRUE))
            => getGameStatus(board, gameState) = "Checkmate! You win!"
        /\ (/\ Stalemated(board, gameState, TRUE) \/ Stalemated(board, gameState, FALSE)
            /\ ~Checkmated(board, gameState, TRUE)
            /\ ~Checkmated(board, gameState, FALSE))
            => getGameStatus(board, gameState) = "Stalemate! Game is a draw."
        /\ (HasLegalMove(board, gameState, TRUE) /\ HasLegalMove(board, gameState, FALSE))
            => getGameStatus(board, gameState) \notin TerminalStatuses

----------------------------------------------------------------------------
(* The starting position *)

\* C11: on the starting position with all rights true, getPossibleMoves returns
\* for each pawn exactly the square one step forward and the square two steps
\* forward, for each knight exactly its two forward squares, and for every rook,
\* bishop, queen and king the empty list.
C11_StartingMoves ==
    (board = initialBoard /\ gameState = initialGameState) =>
        \A sq \in Squares :
            LET piece == board[sq.row][sq.col]
                forward == IF charAt0[piece] = "w" THEN -1 ELSE 1
                moves == getPossibleMoves(sq.row, sq.col, board, gameState)
            IN  CASE charAt1[piece] = "P" ->
                        moves = {Sq(sq.row + forward, sq.col), Sq(sq.row + 2 * forward, sq.col)}
                  [] charAt1[piece] = "N" ->
                        moves = {Sq(sq.row + 2 * forward, sq.col - 1),
                                 Sq(sq.row + 2 * forward, sq.col + 1)}
                  [] OTHER -> moves = {}

\* C11 witness: the starting position, where the white pawn on (6,4) has the
\* moves (5,4) and (4,4).
C11_Witness ==
    /\ board = initialBoard
    /\ gameState = initialGameState
    /\ getPossibleMoves(6, 4, board, gameState) = {Sq(5, 4), Sq(4, 4)}

\* C12: on the board and rights resetGame returns, isGameOver is false and
\* getGameStatus returns the in-progress status: neither colour is in check,
\* checkmated or stalemated.
C12_ResetInProgress ==
    (board = resetGame.board /\ gameState = resetGame.gameState) =>
        /\ ~isGameOver_raises(board, gameState)
        /\ ~isGameOver(board, gameState)
        /\ ~getGameStatus_raises(board, gameState)
        /\ getGameStatus(board, gameState) = "Game in progress"
        /\ \A isWhite \in BOOLEAN :
            /\ ~InCheck(board, isWhite)
            /\ HasLegalMove(board, gameState, isWhite)

\* C12 witness: the position resetGame returns, with no move played, is not over.
C12_Witness ==
    /\ board = resetGame.board
    /\ gameState = resetGame.gameState
    /\ played = << >> /\ free = 0
    /\ ~isGameOver(board, gameState)

----------------------------------------------------------------------------
(* Promotion *)

\* C13: promotePawn on a square that is empty or holds a non-pawn leaves the
\* whole board unchanged; on a square holding a pawn it replaces that cell by the
\* piece of the same colour and the requested kind and leaves the other 63 cells
\* unchanged.
C13_PromotePawnFrame ==
    \A sq \in Squares, newPiece \in PromotionChoices :
        LET piece == board[sq.row][sq.col]
            after == promotePawn(sq.row, sq.col, board, newPiece)
        IN  IF piece \in {"wP", "bP"}
            THEN /\ charAt0[after[sq.row][sq.col]] = charAt0[piece]
                 /\ charAt1[after[sq.row][sq.col]] = newPiece
                 /\ \A other \in Squares \ {sq} :
                        after[other.row][other.col] = board[other.row][other.col]
            ELSE \A other \in Squares :
                    after[other.row][other.col] = board[other.row][other.col]

\* C13 witness: promotePawn has made a queen of the black pawn on (1,7) of the
\* board with no rooks, whose other pieces stand where they stood.
C13_Witness ==
    /\ steps = 1
    /\ board[1][7] = "bQ"
    /\ board[7][7] = "wB" /\ board[0][0] = "wN"
    /\ board[7][4] = "wK" /\ board[0][4] = "bK"

----------------------------------------------------------------------------
(* The computer's move *)

\* The legal black moves: the pairs of a square holding a black piece and a
\* destination getPossibleMoves returns for it
LegalBlackMoves(board_, gameState_) ==
    UNION {{<<from, to>> : to \in getPossibleMoves(from.row, from.col, board_, gameState_)} :
            from \in {s \in Squares : charAt0[board_[s.row][s.col]] = "b"}}

\* The board with one black move applied, cell by cell: the piece on its
\* destination (a queen for a pawn arriving on row 7), the origin empty, and for
\* the king castling from (0,4) the rook of the corner beside it.
BlackMoveApplied(from, to, board_) ==
    LET piece == board_[from.row][from.col]
        castles(destCol) == piece = "bK" /\ from = Sq(0, 4) /\ to = Sq(0, destCol)
    IN  [r \in Idx |-> [c \in Idx |->
            IF Sq(r, c) = to THEN (IF piece = "bP" /\ r = 7 THEN "bQ" ELSE piece)
            ELSE IF Sq(r, c) = from THEN ""
            ELSE IF castles(6) /\ Sq(r, c) = Sq(0, 5) THEN board_[0][7]
            ELSE IF castles(6) /\ Sq(r, c) = Sq(0, 7) THEN ""
            ELSE IF castles(2) /\ Sq(r, c) = Sq(0, 3) THEN board_[0][0]
            ELSE IF castles(2) /\ Sq(r, c) = Sq(0, 0) THEN ""
            ELSE board_[r][c]]]

\* C14: when black has a legal move, the boards makeComputerMove can return are
\* exactly the input board with one legal black move applied (with the rook
\* relocation or the queen promotion it entails), one board for every legal
\* black move; with one legal move only it returns that move's board.
C14_ComputerMoveIsLegalMove ==
    (/\ ~makeComputerMove_raises(board, gameState)
     /\ LegalBlackMoves(board, gameState) # {})
    => {r.board : r \in makeComputerMove(board, gameState)}
        = {BlackMoveApplied(p[1], p[2], board) : p \in LegalBlackMoves(board, gameState)}

\* C14 witness: black has exactly one legal move, and makeComputerMove returns
\* one board, which is not the input board.
C14_Witness ==
    /\ ~makeComputerMove_raises(board, gameState)
    /\ Cardinality(LegalBlackMoves(board, gameState)) = 1
    /\ Cardinality(makeComputerMove(board, gameState)) = 1
    /\ \A r \in makeComputerMove(board, gameState) : r.board # board

\* No black pawn stands on row 7
NoBlackPawnOnRow7(board_) == \A c \in Idx : board_[7][c] # "bP"

\* C15: for a board with no black pawn on row 7, no board makeComputerMove
\* returns has a black pawn on row 7: a black pawn moved onto row 7 is a black
\* queen on the returned board.
C15_ComputerPromotesToQueen ==
    NoBlackPawnOnRow7(board) =>
        /\ \A r \in makeComputerMove(board, gameState) : NoBlackPawnOnRow7(r.board)
        /\ \A p \in LegalBlackMoves(board, gameState) :
            (board[p[1].row][p[1].col] = "bP" /\ p[2].row = 7)
            => ComputerMoveResult(p[1], p[2], board, gameState).board[p[2].row][p[2].col] = "bQ"

\* C15 witness: the computer's pawn has captured on (7,6) and a black queen
\* stands there.
C15_Witness ==
    /\ turn = "w"
    /\ board[7][6] = "bQ"
    /\ board[6][7] = ""

----------------------------------------------------------------------------
(* Faults and frames *)

\* C16: isKingInCheck called for a colour whose king is not on the board fails
\* with a fault: it returns neither 'in check' nor 'not in check'.
C16_NoKingIsAFault ==
    \A isWhiteKing \in BOOLEAN :
        findKing(board, isWhiteKing) = null => isKingInCheck_raises(board, isWhiteKing)

Coordinates == -1 .. 8

\* C18: getPossibleMoves called with a row or a column off the board raises an
\* error: it returns no list.
C18_OffBoardQueryRejected ==
    \A row \in Coordinates, col \in Coordinates :
        ~OnBoard(row, col) => getPossibleMovesAt_raises(row, col, board, gameState)

----------------------------------------------------------------------------
(* The game session (ChessGame.tsx): the handlers run one at a time, each on the
   state the last render gave it; a computer move runs in a callback scheduled
   by setTimeout with the board and rights of the handler that scheduled it. The
   lists of captured pieces, which only feed the display, are left out. *)

Click(r, c) == Ev("click", Sq(r, c), null, "")
Reply(fr, fc, tr, tc) == Ev("timer", Sq(fr, fc), Sq(tr, tc), "")

(* The runs the exploration follows from the first render. An event of a run is
   taken only if the session can take it. *)
\* e2-e4, then g1-f3 before the computer's reply, then the two replies
RunTwoMoves ==
    <<Click(6, 4), Click(4, 4), Click(7, 6), Click(5, 5),
      Reply(1, 4, 3, 4), Reply(1, 3, 3, 3)>>

\* e2-e4, the bishop f1 selected before the reply b7-b5, then a click on a6
RunStaleSelection ==
    <<Click(6, 4), Click(4, 4), Click(7, 5), Reply(1, 1, 3, 1), Click(2, 0)>>

\* the a-pawn goes to a8 before any reply (a4, a5, a6, axb7, bxa8) and the
\* dialog's queen is chosen
RunPromotion ==
    <<Click(6, 0), Click(4, 0), Click(4, 0), Click(3, 0), Click(3, 0), Click(2, 0),
      Click(2, 0), Click(1, 1), Click(1, 1), Click(0, 0), Ev("promote", null, null, "Q")>>

\* e2-e4 d7-d5, a2-a3 and the reply d5xe4: the computer captures
RunCapture ==
    <<Click(6, 4), Click(4, 4), Reply(1, 3, 3, 3), Click(6, 0), Click(5, 0),
      Reply(3, 3, 4, 4)>>

\* e2-e4, New Game before the reply, then the callback of the old game
RunReset ==
    <<Click(6, 4), Click(4, 4), Ev("reset", null, null, ""), Reply(1, 4, 3, 4)>>

\* e2-e4, Qd1-h5, Bf1-c4 and Qh5xf7 mate before any reply, then the callback
\* scheduled by e2-e4
RunMate ==
    <<Click(6, 4), Click(4, 4), Click(7, 3), Click(3, 7), Click(7, 5), Click(4, 2),
      Click(3, 7), Click(1, 5), Reply(1, 4, 3, 4)>>

\* The a-pawn goes to a8 with a reply after each move (a4 h6, a5 h5, a6 h4,
\* axb7 h3, bxa8) and the dialog is closed without a choice
RunDismiss ==
    <<Click(6, 0), Click(4, 0), Reply(1, 7, 2, 7), Click(4, 0), Click(3, 0), Reply(2, 7, 3, 7),
      Click(3, 0), Click(2, 0), Reply(3, 7, 4, 7), Click(2, 0), Click(1, 1), Reply(4, 7, 5, 7),
      Click(1, 1), Click(0, 0), Ev("dismiss", null, null, "")>>

\* f2-f3 e7-e5, g2-g4 and the reply Qd8-h4 mate
RunFool ==
    <<Click(6, 5), Click(5, 5), Reply(1, 4, 3, 4), Click(6, 6), Click(4, 6),
      Reply(0, 3, 4, 7)>>

Runs == {RunTwoMoves, RunStaleSelection, RunPromotion, RunCapture, RunReset, RunMate,
         RunDismiss, RunFool}

\* The number of events, after leaving the Runs, drawn from all the events the
\* session can take
MaxOffRun == 1

InRun(ev) ==
    /\ free = 0
    /\ \E run \in Runs :
        /\ Len(run) > Len(played)
        /\ SubSeq(run, 1, Len(played)) = played
        /\ run[Len(played) + 1] = ev

\* An event of a run continues it; any other event is counted in free.
Advance(ev) ==
    IF InRun(ev)
    THEN played' = Append(played, ev) /\ free' = free
    ELSE free < MaxOffRun /\ played' = << >> /\ free' = free + 1

SessionInit ==
    /\ board = initialBoard
    /\ gameState = initialGameState
    /\ turn = "w"
    /\ played = << >>
    /\ free = 0
    /\ unmoved = {}
    /\ steps = 0
    /\ SessionIdle

\* handleGameOver (241-250): the status of getGameStatus and gameOver. Its three
\* callers call it when isGameOver returned true for the same board and rights,
\* and getGameStatus evaluates the same four conditions in the same order, so
\* it returns at the condition isGameOver returned at.
handleGameOver(currentBoard, currentGameState) ==
    /\ gameStatus' = getGameStatus(currentBoard, currentGameState)
    /\ gameOver' = TRUE

\* The end of handleCellClick's move branch (95-124) and of handlePromotion
\* (149-178): the game-over test, the status, and the computer move scheduled
\* with the handler's newBoard and rights. A call that raises ends the handler
\* with the state set so far.
AfterPlayerMove(newBoard, newGameState) ==
    IF isGameOver_raises(newBoard, newGameState)
    THEN UNCHANGED <<gameStatus, gameOver, pending>>
    ELSE IF isGameOver(newBoard, newGameState)
    THEN handleGameOver(newBoard, newGameState) /\ UNCHANGED pending
    ELSE IF isKingInCheck_raises(newBoard, FALSE)
    THEN UNCHANGED <<gameStatus, gameOver, pending>>
    ELSE /\ gameStatus' = (IF isKingInCheck(newBoard, FALSE)
                           THEN "Computer's king is in check!"
                           ELSE "Computer is thinking...")
         /\ pending' = Append(pending, [board |-> newBoard, gameState |-> newGameState])
         /\ UNCHANGED gameOver

\* handleCellClick, the move branch (57-124): the piece of the selected square
\* goes to the clicked square; a white pawn arriving on row 0 opens the dialog
\* and returns, leaving the selection as it is.
MoveBranch(clicked) ==
    LET movingPiece == board[selectedPiece.row][selectedPiece.col]
        a == ApplyMove(selectedPiece.row, selectedPiece.col, clicked.row, clicked.col,
                       board, gameState)
    IN  /\ gameState' = a.gameState
        /\ board' = a.board
        /\ event' = Ev("move", selectedPiece, clicked, "")
        /\ awaiting' = TRUE
        /\ IF movingPiece = "wP" /\ clicked.row = 0
           THEN /\ promotionPosition' = clicked
                /\ showPromotion' = TRUE
                /\ UNCHANGED <<selectedPiece, availableMoves, gameStatus, gameOver, pending>>
           ELSE /\ selectedPiece' = null
                /\ availableMoves' = {}
                /\ UNCHANGED <<showPromotion, promotionPosition>>
                /\ AfterPlayerMove(a.board, a.gameState)

\* handleCellClick, the selection branch (127-131)
SelectBranch(clicked) ==
    IF getPossibleMoves_raises(clicked.row, clicked.col, board, gameState)
    THEN /\ event' = Ev("raised", clicked, null, "")
         /\ UNCHANGED <<board, gameState, selectedPiece, availableMoves, gameStatus, gameOver,
                        showPromotion, promotionPosition, pending, awaiting>>
    ELSE /\ selectedPiece' = clicked
         /\ availableMoves' = getPossibleMoves(clicked.row, clicked.col, board, gameState)
         /\ event' = Ev("select", clicked, null, "")
         /\ UNCHANGED <<board, gameState, gameStatus, gameOver, showPromotion,
                        promotionPosition, pending, awaiting>>

\* handleCellClick, the last branch (133-136)
DeselectBranch(clicked) ==
    /\ selectedPiece' = null
    /\ availableMoves' = {}
    /\ event' = Ev("deselect", clicked, null, "")
    /\ UNCHANGED <<board, gameState, gameStatus, gameOver, showPromotion,
                   promotionPosition, pending, awaiting>>

\* handleCellClick
handleCellClick(row, col) ==
    /\ Advance(Click(row, col))
    /\ IF gameOver \/ showPromotion \/ ~isWhiteTurn(board)
       THEN /\ event' = Ev("ignored", Sq(row, col), null, "")
            /\ UNCHANGED <<board, gameState, selectedPiece, availableMoves, gameStatus, gameOver,
                           showPromotion, promotionPosition, pending, awaiting>>
       ELSE IF selectedPiece # null /\ Sq(row, col) \in availableMoves
       THEN MoveBranch(Sq(row, col))
       ELSE IF charAt0[board[row][col]] = "w"
       THEN SelectBranch(Sq(row, col))
       ELSE DeselectBranch(Sq(row, col))
    /\ UNCHANGED <<turn, unmoved, steps>>

\* handlePromotion, called by a button of the open dialog
handlePromotion(pieceType) ==
    /\ showPromotion
    /\ Advance(Ev("promote", null, null, pieceType))
    /\ event' = Ev("promote", promotionPosition, null, pieceType)
    /\ IF promotionPosition = null
       THEN UNCHANGED <<board, showPromotion, promotionPosition, gameStatus, gameOver, pending>>
       ELSE LET newBoard == promotePawn(promotionPosition.row, promotionPosition.col,
                                        board, pieceType)
            IN  /\ board' = newBoard
                /\ showPromotion' = FALSE
                /\ promotionPosition' = null
                /\ AfterPlayerMove(newBoard, gameState)
    /\ UNCHANGED <<gameState, selectedPiece, availableMoves, awaiting, turn, unmoved, steps>>

\* The dialog closed without a choice: onOpenChange is setShowPromotion (327)
onOpenChange ==
    /\ showPromotion
    /\ Advance(Ev("dismiss", null, null, ""))
    /\ showPromotion' = FALSE
    /\ event' = Ev("dismiss", null, null, "")
    /\ UNCHANGED <<board, gameState, selectedPiece, availableMoves, gameStatus, gameOver,
                   promotionPosition, pending, awaiting, turn, unmoved, steps>>

\* The end of the callback (112-122, 166-176): the result is set, then the
\* game-over test and the status
AfterComputerMove(result) ==
    /\ board' = result.board
    /\ gameState' = result.gameState
    /\ awaiting' = FALSE
    /\ IF isGameOver_raises(result.board, result.gameState)
       THEN UNCHANGED <<gameStatus, gameOver>>
       ELSE IF isGameOver(result.board, result.gameState)
       THEN handleGameOver(result.board, result.gameState)
       ELSE IF isKingInCheck_raises(result.board, TRUE)
       THEN UNCHANGED <<gameStatus, gameOver>>
       ELSE /\ gameStatus' = (IF isKingInCheck(result.board, TRUE)
                              THEN "Your king is in check!" ELSE "Your turn")
            /\ UNCHANGED gameOver

\* What makeComputerMove resolves to for each outcome of its random draws,
\* with the timer event that names the move drawn: the inputs themselves when
\* black has no legal move.
ComputerOutcomes(board_, gameState_) ==
    IF LegalBlackMoves(board_, gameState_) = {}
    THEN {[event |-> Ev("timer", null, null, ""), board |-> board_, gameState |-> gameState_]}
    ELSE {[event |-> Ev("timer", p[1], p[2], ""),
           board |-> ComputerMoveResult(p[1], p[2], board_, gameState_).board,
           gameState |-> ComputerMoveResult(p[1], p[2], board_, gameState_).gameState] :
                p \in LegalBlackMoves(board_, gameState_)}

\* The oldest scheduled callback runs (110-124, 164-178): makeComputerMove on the
\* board and rights it was scheduled with. When makeComputerMove raises, the
\* promise is rejected and nothing is set.
ComputerMoveCallback ==
    /\ pending # << >>
    /\ pending' = Tail(pending)
    /\ IF makeComputerMove_raises(Head(pending).board, Head(pending).gameState)
       THEN /\ Advance(Ev("timer", null, null, ""))
            /\ event' = Ev("rejected", null, null, "")
            /\ UNCHANGED <<board, gameState, gameStatus, gameOver, awaiting>>
       ELSE \E result \in ComputerOutcomes(Head(pending).board, Head(pending).gameState) :
            /\ Advance(result.event)
            /\ event' = result.event
            /\ AfterComputerMove(result)
    /\ UNCHANGED <<selectedPiece, availableMoves, showPromotion, promotionPosition,
                   turn, unmoved, steps>>

\* handleReset (253-269); the scheduled callbacks are not cancelled
handleReset ==
    /\ Advance(Ev("reset", null, null, ""))
    /\ board' = resetGame.board
    /\ gameState' = resetGame.gameState
    /\ selectedPiece' = null
    /\ availableMoves' = {}
    /\ gameStatus' = "Your turn"
    /\ gameOver' = FALSE
    /\ showPromotion' = FALSE
    /\ promotionPosition' = null
    /\ event' = Ev("reset", null, null, "")
    /\ awaiting' = FALSE
    /\ UNCHANGED <<pending, turn, unmoved, steps>>

SessionNext ==
    \/ \E row \in Idx, col \in Idx : handleCellClick(row, col)
    \/ \E pieceType \in PromotionChoices : handlePromotion(pieceType)
    \/ onOpenChange
    \/ ComputerMoveCallback
    \/ handleReset

SessionSpec == SessionInit /\ [][SessionNext]_vars

\* C19: every move handleCellClick applies for the player is legal on the board
\* as it is at that moment: the selected square holds a white piece and the
\* clicked square is in getPossibleMoves for it on the current board and rights.
C19_AppliedPlayerMoveIsLegal ==
    [][event'.kind = "move" =>
        /\ charAt0[board[selectedPiece.row][selectedPiece.col]] = "w"
        /\ ~getPossibleMoves_raises(selectedPiece.row, selectedPiece.col, board, gameState)
        /\ event'.b \in getPossibleMoves(selectedPiece.row, selectedPiece.col, board, gameState)]_vars

\* C20: player and computer moves alternate: once a player move is applied, no
\* other player move is applied before a computer move is.
C20_MovesAlternate ==
    [][event'.kind = "move" => ~awaiting]_vars

\* C21: whenever the session is not over and the status is the one the callback
\* sets after the computer's move ("Your turn" or "Your king is in check!"),
\* isWhiteTurn(board) is true, so that handleCellClick processes the player's
\* clicks.
C21_PlayerCanMoveAfterReply ==
    (~gameOver /\ gameStatus \in {"Your turn", "Your king is in check!"})
        => isWhiteTurn(board)

\* The state handleReset sets: the starting position, every right, not over
Fresh ==
    /\ board = initialBoard
    /\ gameState = initialGameState
    /\ ~gameOver

\* C22: after handleReset the board is the starting position, the rights are all
\* true and gameOver is false, and no step other than the player's next move
\* changes that, a callback scheduled before the reset included.
C22_ResetStaysUntilPlayerMoves ==
    [][/\ event'.kind = "reset" => Fresh'
       /\ (Fresh /\ event'.kind # "move") => Fresh']_vars

\* C23: once gameOver is set, no step other than handleReset changes the board
\* or the castling rights.
C23_GameOverFreezesBoard ==
    [][(gameOver /\ event'.kind # "reset")
            => (board' = board /\ gameState' = gameState)]_vars

\* With no callback pending and the dialog closed when gameOver is set, the board
\* and the rights stay as they are until handleReset.
C23_GameOverFreezesBoard_NothingPending ==
    [][(gameOver /\ pending = << >> /\ ~showPromotion /\ event'.kind # "reset")
            => (board' = board /\ gameState' = gameState)]_vars

\* C24: whenever the promotion dialog is not showing, no white pawn stands on
\* row 0.
C24_NoWhitePawnOnRow0WhenDialogClosed ==
    ~showPromotion => \A col \in Idx : board[0][col] # "wP"

\* The dialog closed by a choice: handlePromotion leaves no white pawn on row 0
\* when it closes the dialog.
C24_ChoiceReplacesPawn ==
    [][(event'.kind = "promote" /\ ~showPromotion')
            => \A col \in Idx : board'[0][col] # "wP"]_vars

----------------------------------------------------------------------------
(* The engine's writes. The arrays and the rights objects are objects of a
   memory, a function from object names to contents; a local variable denotes
   the object its initialiser gives it, and an assignment board[r][c] = v
   writes the object the variable denotes. *)

\* Every board a caller's board: the copies left out (const testBoard = board,
\* const newBoard = board, let newGameState = gameState)
ObjectOf_shared ==
    [board |-> "board", gameState |-> "gameState", testBoard |-> "board",
     newBoard |-> "board", newGameState |-> "gameState"]

\* The object each variable denotes: board and gameState are the caller's;
\* board.map(row => [...row]) (290, 431) and { ...gameState } (432) make new ones
ObjectOf ==
    [board |-> "board", gameState |-> "gameState", testBoard |-> "testBoard",
     newBoard |-> "newBoard", newGameState |-> "newGameState"]

\* The memory at a call with the arguments board_ and gameState_
MemoryAtCall(board_, gameState_) ==
    [board |-> board_, gameState |-> gameState_, testBoard |-> board_,
     newBoard |-> board_, newGameState |-> gameState_]

\* const variable = (a copy of source): the contents of source's object, in the
\* object variable denotes
CopyInto(memory, variable, source) ==
    [memory EXCEPT ![ObjectOf[variable]] = memory[ObjectOf[source]]]

\* variable[row][col] = value
WriteCell(memory, variable, row, col, value) ==
    [memory EXCEPT ![ObjectOf[variable]][row][col] = value]

\* getPossibleMoves' filter loop (288-299) over the moves left, in scan order:
\* the copy, the two writes of the test board, and isKingInCheck, which writes
\* nothing
RECURSIVE TryMoves(_, _, _, _)
TryMoves(moves, row, col, memory) ==
    IF moves = {} THEN memory
    ELSE LET move == CHOOSE m \in moves :
                        \A n \in moves : ScanIndex(m.row, m.col) <= ScanIndex(n.row, n.col)
             copied == CopyInto(memory, "testBoard", "board")
             moved == WriteCell(copied, "testBoard", move.row, move.col,
                                copied[ObjectOf["testBoard"]][row][col])
             cleared == WriteCell(moved, "testBoard", row, col, "")
         IN  TryMoves(moves \ {move}, row, col, cleared)

\* The memory after getPossibleMoves(row, col, board, gameState)
getPossibleMoves_memory(row, col, memory) ==
    IF memory.board[row][col] = "" THEN memory
    ELSE TryMoves(CandidateMoves(row, col, memory.board, memory.gameState), row, col, memory)

\* The scan of hasAnyValidMoves (411-421) and of makeComputerMove (437-447) from
\* cell i on: getPossibleMoves for each piece of the colour; hasAnyValidMoves
\* returns at the first piece that has a move
RECURSIVE ScanFrom(_, _, _, _)
ScanFrom(i, isWhite, returnsAtFirst, memory) ==
    IF i = 64 THEN memory
    ELSE LET row == i \div 8
             col == i % 8
             piece == memory.board[row][col]
         IN  IF piece # "" /\ charAt0[piece] = (IF isWhite THEN "w" ELSE "b")
             THEN IF /\ returnsAtFirst
                     /\ getPossibleMoves(row, col, memory.board, memory.gameState) # {}
                  THEN getPossibleMoves_memory(row, col, memory)
                  ELSE ScanFrom(i + 1, isWhite, returnsAtFirst,
                                getPossibleMoves_memory(row, col, memory))
             ELSE ScanFrom(i + 1, isWhite, returnsAtFirst, memory)

\* The memory after isKingInCheck: findKing (62-74), isSquareUnderAttack (77-99)
\* and getRawPossibleMoves (110-222) assign no cell and no right
isKingInCheck_memory(memory, isWhiteKing) == memory

\* The memory after the conditions i..4 of isGameOver (487-503) and getGameStatus
\* (511-527): hasAnyValidMoves is called when isKingInCheck gave the wanted value
RECURSIVE TerminalTests_memory(_, _)
TerminalTests_memory(i, memory) ==
    IF i > 4 THEN memory
    ELSE LET isWhite == TerminalTests[i].isWhite
             checked == isKingInCheck_memory(memory, isWhite)
         IN  IF isKingInCheck(memory.board, isWhite) # TerminalTests[i].wanted
             THEN TerminalTests_memory(i + 1, checked)
             ELSE IF ~hasAnyValidMoves(memory.board, isWhite, memory.gameState)
             THEN ScanFrom(0, isWhite, TRUE, checked)
             ELSE TerminalTests_memory(i + 1, ScanFrom(0, isWhite, TRUE, checked))

isGameOver_memory(memory) == TerminalTests_memory(1, memory)

getGameStatus_memory(memory) == TerminalTests_memory(1, memory)

\* makeComputerMove up to its draws: the two copies (431-432) and the scan of
\* the black pieces (437-447)
makeComputerMove_scan(memory) ==
    ScanFrom(0, FALSE, FALSE,
             CopyInto(CopyInto(memory, "newBoard", "board"), "newGameState", "gameState"))

\* makeComputerMove from its draws on (450-481), for the drawn piece and move
\* (null and null when no black piece has a move): updateGameState, the move and
\* promotePawn on newBoard; the memory after the call and the value returned
makeComputerMove_draw(chosenPiece, targetMove, scanned) ==
    LET newBoard == scanned[ObjectOf["newBoard"]]
        newGameState == scanned[ObjectOf["newGameState"]]
    IN  IF chosenPiece = null
        THEN [memory |-> scanned, result |-> [board |-> newBoard, gameState |-> newGameState]]
        ELSE LET r == ComputerMoveResult(chosenPiece, targetMove, newBoard, newGameState)
             IN  [memory |-> [scanned EXCEPT ![ObjectOf["newBoard"]] = r.board],
                  result |-> r]

----------------------------------------------------------------------------
\* The caller's board and rights are in memory what the session holds
CallerUnchanged(memory) ==
    /\ memory.board = board
    /\ memory.gameState = gameState

\* The draws makeComputerMove can make on the session's board: a legal black
\* move, or none when black has no legal move
Draws ==
    IF LegalBlackMoves(board, gameState) = {}
    THEN {<<null, null>>}
    ELSE LegalBlackMoves(board, gameState)

\* C25: getPossibleMoves, isKingInCheck, isGameOver, getGameStatus and
\* makeComputerMove leave the board and the rights object they are passed as they
\* were; when black has no legal move, makeComputerMove returns a board and
\* rights equal to its inputs.
C25_EngineLeavesArguments ==
    LET memory == MemoryAtCall(board, gameState)
    IN  /\ \A s \in Squares :
            ~getPossibleMoves_raises(s.row, s.col, board, gameState)
                => CallerUnchanged(getPossibleMoves_memory(s.row, s.col, memory))
        /\ \A isWhiteKing \in BOOLEAN :
            CallerUnchanged(isKingInCheck_memory(memory, isWhiteKing))
        /\ ~isGameOver_raises(board, gameState)
                => CallerUnchanged(isGameOver_memory(memory))
        /\ ~getGameStatus_raises(board, gameState)
                => CallerUnchanged(getGameStatus_memory(memory))
        /\ ~makeComputerMove_raises(board, gameState)
                => /\ LET scanned == makeComputerMove_scan(memory)
                      IN  \A p \in Draws :
                            CallerUnchanged(makeComputerMove_draw(p[1], p[2], scanned).memory)
                   /\ LegalBlackMoves(board, gameState) = {}
                        => /\ makeComputerMove_draw(null, null, makeComputerMove_scan(memory)).result
                                = [board |-> board, gameState |-> gameState]
                           /\ makeComputerMove(board, gameState)
                                = {[board |-> board, gameState |-> gameState]}

\* Black has no legal move, white has one, and the calls return
C25_Witness ==
    /\ ~makeComputerMove_raises(board, gameState)
    /\ ~isGameOver_raises(board, gameState)
    /\ LegalBlackMoves(board, gameState) = {}
    /\ \E s \in Squares :
        /\ charAt0[board[s.row][s.col]] = "w"
        /\ ~getPossibleMoves_raises(s.row, s.col, board, gameState)
        /\ getPossibleMoves(s.row, s.col, board, gameState) # {}
        /\ getPossibleMoves_memory(s.row, s.col, MemoryAtCall(board, gameState)).testBoard
                # board

----------------------------------------------------------------------------
(* The reference geometry of the pieces, by the two squares of a move *)

Abs(n) == IF n < 0 THEN -n ELSE n

Sign(n) == IF n < 0 THEN -1 ELSE IF n > 0 THEN 1 ELSE 0

Distance(from, to) ==
    IF Abs(to.row - from.row) > Abs(to.col - from.col)
    THEN Abs(to.row - from.row) ELSE Abs(to.col - from.col)

Straight(from, to) == from # to /\ (from.row = to.row \/ from.col = to.col)

Diagonal(from, to) == from # to /\ Abs(to.row - from.row) = Abs(to.col - from.col)

\* The squares strictly between two squares of one line (of a row, a column or
\* a diagonal)
Between(from, to) ==
    {Sq(from.row + j * Sign(to.row - from.row), from.col + j * Sign(to.col - from.col)) :
        j \in 1..(Distance(from, to) - 1)}

Colour(board_, sq) == charAt0[board_[sq.row][sq.col]]

Empty(board_, sq) == board_[sq.row][sq.col] = ""

Friendly(board_, from, to) == ~Empty(board_, to) /\ Colour(board_, to) = Colour(board_, from)

Enemy(board_, from, to) == ~Empty(board_, to) /\ Colour(board_, to) # Colour(board_, from)

\* A slide reaches a square of its line when every square between is empty and
\* the square itself holds no friendly piece
ReferenceSlide(board_, from, to) ==
    /\ \A sq \in Between(from, to) : Empty(board_, sq)
    /\ ~Friendly(board_, from, to)

ReferencePawn(board_, from, to) ==
    LET forward == IF Colour(board_, from) = "w" THEN -1 ELSE 1
        home == IF Colour(board_, from) = "w" THEN 6 ELSE 1
    IN  \/ /\ to.col = from.col
           /\ to.row = from.row + forward
           /\ Empty(board_, to)
        \/ /\ to.col = from.col
           /\ to.row = from.row + 2 * forward
           /\ from.row = home
           /\ Empty(board_, to)
           /\ Empty(board_, Sq(from.row + forward, from.col))
        \/ /\ Abs(to.col - from.col) = 1
           /\ to.row = from.row + forward
           /\ Enemy(board_, from, to)

\* The reference move set of the piece on a square
ReferenceMoves(board_, from) ==
    LET kind == charAt1[board_[from.row][from.col]]
    IN  {to \in Squares :
            CASE kind = "P" -> ReferencePawn(board_, from, to)
              [] kind = "R" -> Straight(from, to) /\ ReferenceSlide(board_, from, to)
              [] kind = "B" -> Diagonal(from, to) /\ ReferenceSlide(board_, from, to)
              [] kind = "Q" -> /\ Straight(from, to) \/ Diagonal(from, to)
                               /\ ReferenceSlide(board_, from, to)
              [] kind = "N" -> /\ {Abs(to.row - from.row), Abs(to.col - from.col)} = {1, 2}
                               /\ ~Friendly(board_, from, to)
              [] kind = "K" -> Distance(from, to) = 1 /\ ~Friendly(board_, from, to)}

NoPawnOnFarRank(board_) ==
    \A col \in Idx : board_[0][col] # "wP" /\ board_[7][col] # "bP"

\* C26: on a board with no pawn on its far rank, getRawPossibleMoves returns for
\* every occupied square exactly the reference move set of its piece, and no
\* returned square holds a piece of the mover's colour.
C26_RawMovesAreReferenceMoves ==
    NoPawnOnFarRank(board) =>
        \A from \in Squares :
            ~Empty(board, from) =>
                /\ ~getRawPossibleMoves_raises(from.row, from.col, board)
                /\ getRawPossibleMoves(from.row, from.col, board) = ReferenceMoves(board, from)
                /\ \A to \in getRawPossibleMoves(from.row, from.col, board) :
                        ~Friendly(board, from, to)

\* A slider stopped by a capture with an empty square behind it, a slider stopped
\* by a friendly piece, and a pawn on its home row, after an operation
C26_Witness ==
    /\ steps = 1
    /\ NoPawnOnFarRank(board)
    /\ \E from \in Squares, to \in Squares, behind \in Squares :
        /\ charAt1[board[from.row][from.col]] \in {"R", "B", "Q"}
        /\ to \in getRawPossibleMoves(from.row, from.col, board)
        /\ Enemy(board, from, to)
        /\ Straight(from, behind) \/ Diagonal(from, behind)
        /\ Distance(from, behind) = Distance(from, to) + 1
        /\ to \in Between(from, behind)
        /\ Empty(board, behind)
    /\ \E from \in Squares, to \in Squares :
        /\ charAt1[board[from.row][from.col]] \in {"R", "B", "Q"}
        /\ Straight(from, to) \/ Diagonal(from, to)
        /\ Friendly(board, from, to)
        /\ \A sq \in Between(from, to) : Empty(board, sq)
    /\ \E from \in Squares :
        /\ charAt1[board[from.row][from.col]] = "P"
        /\ getRawPossibleMoves(from.row, from.col, board) # {}

====
